---- MODULE Spec2Model ----
(***************************************************************************)
(* The session state machine of TableAgentGPT: the ChatState record, the   *)
(* five node functions of manage_multi_agent_states.py, the router and the *)
(* edges of build_state_graph.py.                                          *)
(*                                                                         *)
(* Text is modelled as a sequence of strings.  User input and file paths   *)
(* are sequences of one-character strings, so that lower(), startswith(),  *)
(* split(), basename() and splitext() are computed.  Text produced by the  *)
(* language model is a sequence of tokens ("[CLARIFICATION]", the fence,   *)
(* "sql", white space, words), so that the marker test, the fence removal  *)
(* and strip() are computed.                                               *)
(***************************************************************************)
EXTENDS Integers, Sequences, FiniteSets, TLC

VARIABLES
    conversation_history,      \* ChatState.conversation_history
    sql_event,                 \* ChatState.sql_event
    data_load_event,           \* ChatState.data_load_event
    table_schemas,             \* ChatState.table_schemas
    next_step,                 \* ChatState.next_step
    node,                      \* the node the graph runs next ("END", "crashed")
    db_tables,                 \* the tables of db_conn: table name -> source file
    MAX_RETRY_SQL_GENERATION,  \* constants.MAX_RETRY_SQL_GENERATION, fixed at startup
    last,                      \* history: the node that ran last, its branch, what it was handed
    loaded_blocks,             \* history: table_info of every completed load, in order
    executions                 \* history: execute_query runs since the last accepted question

vars == <<conversation_history, sql_event, data_load_event, table_schemas, next_step,
          node, db_tables, MAX_RETRY_SQL_GENERATION, last, loaded_blocks, executions>>

state_vars == <<conversation_history, sql_event, data_load_event, table_schemas, next_step>>

-----------------------------------------------------------------------------
(* Bounds of the model *)

\* the retry bound is any integer in 0 .. MaxRetryBound
MaxRetryBound == 1

\* user input is read only while the history holds at most this many messages
MaxHistory == 5

-----------------------------------------------------------------------------
(* Text helpers *)

\* Python's None, for the Optional[str] fields
None == <<"<None>">>

RECURSIVE Flatten(_)
Flatten(ss) == IF ss = <<>> THEN <<>> ELSE Head(ss) \o Flatten(Tail(ss))

IsPrefix(s, t) == Len(s) <= Len(t) /\ SubSeq(t, 1, Len(s)) = s

\* str.startswith
StartsWith(s, p) == IsPrefix(p, s)

\* str.lower, on the characters the inputs use
LowerChar(c) ==
    CASE c = "Q" -> "q"
      [] c = "L" -> "l"
      [] c = "O" -> "o"
      [] c = "A" -> "a"
      [] c = "D" -> "d"
      [] OTHER -> c

Lower(s) == [i \in 1..Len(s) |-> LowerChar(s[i])]

WhiteSpace == {" ", "\t", "\n"}

\* str.strip
RECURSIVE LStrip(_)
LStrip(s) == IF s # <<>> /\ Head(s) \in WhiteSpace THEN LStrip(Tail(s)) ELSE s

RECURSIVE RStrip(_)
RStrip(s) ==
    IF s # <<>> /\ s[Len(s)] \in WhiteSpace THEN RStrip(SubSeq(s, 1, Len(s) - 1)) ELSE s

Strip(s) == RStrip(LStrip(s))

\* str.split() without arguments: the maximal runs of non-white-space characters
RECURSIVE SplitFrom(_, _, _)
SplitFrom(s, cur, acc) ==
    IF s = <<>>
    THEN IF cur = <<>> THEN acc ELSE Append(acc, cur)
    ELSE IF Head(s) \in WhiteSpace
         THEN SplitFrom(Tail(s), <<>>, IF cur = <<>> THEN acc ELSE Append(acc, cur))
         ELSE SplitFrom(Tail(s), Append(cur, Head(s)), acc)

Split(s) == SplitFrom(s, <<>>, <<>>)

\* str.rfind of one character: the last index holding c, 0 when there is none
RFind(s, c) ==
    LET hits == {i \in 1..Len(s) : s[i] = c}
    IN  IF hits = {} THEN 0 ELSE CHOOSE i \in hits : \A j \in hits : j <= i

\* str.replace(old, ""), left to right, non-overlapping
RECURSIVE Remove(_, _)
Remove(s, old) ==
    IF s = <<>> THEN <<>>
    ELSE IF StartsWith(s, old)
         THEN Remove(SubSeq(s, Len(old) + 1, Len(s)), old)
         ELSE <<Head(s)>> \o Remove(Tail(s), old)

\* str.split(sep)[1]: the text between the first and the second occurrence of sep
RECURSIVE UpTo(_, _)
UpTo(s, sep) ==
    IF s = <<>> \/ StartsWith(s, sep) THEN <<>> ELSE <<Head(s)>> \o UpTo(Tail(s), sep)

RECURSIVE AfterFirst(_, _)
AfterFirst(s, sep) ==
    IF StartsWith(s, sep) THEN SubSeq(s, Len(sep) + 1, Len(s)) ELSE AfterFirst(Tail(s), sep)

SecondPiece(s, sep) == UpTo(AfterFirst(s, sep), sep)

-----------------------------------------------------------------------------
(* The data model: pydantic_models.py *)

SystemMessage(content) == [role |-> "system", content |-> content]
HumanMessage(content) == [role |-> "human", content |-> content]
AIMessage(content) == [role |-> "ai", content |-> content]

\* SqlEvent(user_question=...): every other field takes its default
SqlEvent(user_question) ==
    [user_question |-> user_question, sql_text |-> None, sql_result |-> None,
     llm_response |-> None, error |-> None, retry_count |-> 0]

DataLoadEvent(file_path, table_columns_description) ==
    [file_path |-> file_path, table_columns_description |-> table_columns_description]

\* mutant of update_conversation_history: the new message replaces the last one
update_conversation_history_replacing(history, new_message) ==
    Append(SubSeq(history, 1, Len(history) - 1), new_message)

\* ChatState.update_conversation_history
update_conversation_history(history, new_message) == Append(history, new_message)

\* The welcome message chat_state is constructed with
WelcomeMessage == SystemMessage(<<"Welcome to TableAgentGPT! ...">>)

-----------------------------------------------------------------------------
(* The graph: build_state_graph.py *)

Nodes == {"handle_user_input", "load_data", "build_query", "execute_query", "post_execution"}

\* add_conditional_edges: for each node, the labels route_to_next_step may return
ConditionalEdges ==
    [n \in {"handle_user_input", "build_query", "execute_query"} |->
        CASE n = "handle_user_input" ->
                ("handle_user_input" :> "handle_user_input" @@ "load_data" :> "load_data"
                 @@ "build_query" :> "build_query" @@ "END" :> "END")
          [] n = "build_query" ->
                ("handle_user_input" :> "handle_user_input"
                 @@ "execute_query" :> "execute_query")
          [] n = "execute_query" ->
                ("build_query" :> "build_query" @@ "post_execution" :> "post_execution"
                 @@ "handle_user_input" :> "handle_user_input")]

\* add_edge: the nodes with one unconditional successor
PlainEdges == ("load_data" :> "handle_user_input" @@ "post_execution" :> "handle_user_input")

\* route_to_next_step
route_to_next_step(step) == step

\* The node the graph runs after `from` has returned a state whose next_step is `step`;
\* a label the edge map does not hold stops the graph with an error.
Successor(from, step) ==
    IF from \in DOMAIN PlainEdges THEN PlainEdges[from]
    ELSE IF route_to_next_step(step) \in DOMAIN ConditionalEdges[from]
         THEN ConditionalEdges[from][route_to_next_step(step)]
         ELSE "invalid_edge"

-----------------------------------------------------------------------------
(* What the collaborators may hand to the session *)

\* the lines input() may return
UserInputs ==
    { <<"/", "q">>,                                            \* /q
      <<"/", "Q", "x">>,                                       \* /Qx
      <<"/", "l", "o", "a", "d">>,                             \* /load
      <<"/", "L", "O", "A", "D", " ", "a", " ", "m", " ", "x">>, \* /LOAD a m x
      <<"/", "l", "o", "a", "d", " ", "d", "/", "a", ".", "c", " ", "m">>, \* /load d/a.c m
      <<"h", "i">>,                                            \* hi
      <<"a", " ", "b">> }                                      \* a b

\* the text the description file may hold
Metas == { <<>>, <<"id, amount">> }

\* three backquotes, the code fence (a backquote cannot be written in a string here)
Fence == "<3 backquotes>"

\* the content model.invoke may return to build_query
Responses ==
    { <<"[CLARIFICATION]", " ", "which?">>,
      <<"[CLARIFICATION]">>,
      <<" ", "[CLARIFICATION]", " ", "which?">>,
      <<Fence, "sql", "\n", "SELECT 1", "\n", Fence>>,
      <<"SELECT 1">> }

\* the rows db_conn.execute(...).fetchall() may return, as formatted in an f-string
ResultRows == { <<"[(1,)]">> }

\* str(e) of the exception db_conn.execute may raise
ErrorTexts == { <<"Parser Error">>, <<"Catalog Error">> }

\* the content model.invoke may return to post_execution
Summaries == { <<"There is one row.">> }

-----------------------------------------------------------------------------
(* handle_user_input *)

QuitMarker == <<"/", "q">>
LoadMarker == <<"/", "l", "o", "a", "d">>

IsQuit(user_input) == StartsWith(Lower(user_input), QuitMarker)
IsLoad(user_input) == StartsWith(Lower(user_input), LoadMarker)

\* _, file_path, table_columns_description = user_input.split() raises unless
\* there are exactly three tokens
LoadParses(user_input) == Len(Split(user_input)) = 3

LoadFirstMessage ==
    SystemMessage(<<"Please load your data first using the command /load <file_path>  <table_columns_description>.">>)

\* mutant of InputBranch: no test of table_schemas before a question is accepted
InputBranchUnguarded(user_input) ==
    IF IsQuit(user_input) THEN "quit"
    ELSE IF IsLoad(user_input)
         THEN IF LoadParses(user_input) THEN "load" ELSE "bad_load"
         ELSE "question"

\* the branch of handle_user_input that `user_input` takes
InputBranch(user_input) ==
    IF IsQuit(user_input) THEN "quit"
    ELSE IF IsLoad(user_input)
         THEN IF LoadParses(user_input) THEN "load" ELSE "bad_load"
         ELSE IF table_schemas = <<>> THEN "load_first" ELSE "question"

\* mutant of IntakeHistory: the line is appended as a human message before it is parsed
IntakeHistoryEveryLine(user_input) ==
    CASE InputBranch(user_input) = "load_first" ->
            update_conversation_history(conversation_history, LoadFirstMessage)
      [] InputBranch(user_input) \in {"question", "quit"} ->
            update_conversation_history(conversation_history, HumanMessage(user_input))
      [] OTHER -> conversation_history

\* the conversation history handle_user_input leaves
IntakeHistory(user_input) ==
    CASE InputBranch(user_input) = "load_first" ->
            update_conversation_history(conversation_history, LoadFirstMessage)
      [] InputBranch(user_input) = "question" ->
            update_conversation_history(conversation_history, HumanMessage(user_input))
      [] OTHER -> conversation_history

\* mutant of IntakeSqlEvent: the new SqlEvent inherits the retry count
IntakeSqlEventKeepsCount(user_input) ==
    IF InputBranch(user_input) = "question"
    THEN [SqlEvent(user_input) EXCEPT !.retry_count = sql_event.retry_count]
    ELSE sql_event

\* mutant of IntakeSqlEvent: an input refused for lack of data still starts a SqlEvent
IntakeSqlEventOnRefusal(user_input) ==
    IF InputBranch(user_input) \in {"question", "load_first"}
    THEN SqlEvent(user_input)
    ELSE sql_event

\* mutant of IntakeSqlEvent: user_question is written only while it is unset
IntakeSqlEventFirstQuestion(user_input) ==
    IF InputBranch(user_input) = "question"
    THEN [SqlEvent(user_input) EXCEPT
             !.user_question = IF sql_event.user_question = None
                               THEN user_input
                               ELSE sql_event.user_question]
    ELSE sql_event

\* the sql_event handle_user_input leaves
IntakeSqlEvent(user_input) ==
    IF InputBranch(user_input) = "question" THEN SqlEvent(user_input) ELSE sql_event

\* the data_load_event handle_user_input leaves
IntakeLoadEvent(user_input) ==
    IF InputBranch(user_input) = "load"
    THEN DataLoadEvent(Split(user_input)[2], Split(user_input)[3])
    ELSE data_load_event

\* mutant of IntakeNextStep: the quit branch writes a label the edge map does not hold
IntakeNextStepEnd(user_input) ==
    CASE InputBranch(user_input) = "quit" -> "end"
      [] InputBranch(user_input) = "load" -> "load_data"
      [] InputBranch(user_input) = "bad_load" -> "handle_user_input"
      [] InputBranch(user_input) = "load_first" -> "handle_user_input"
      [] InputBranch(user_input) = "question" -> "build_query"

\* the next_step handle_user_input writes
IntakeNextStep(user_input) ==
    CASE InputBranch(user_input) = "quit" -> "END"
      [] InputBranch(user_input) = "load" -> "load_data"
      [] InputBranch(user_input) = "bad_load" -> "handle_user_input"
      [] InputBranch(user_input) = "load_first" -> "handle_user_input"
      [] InputBranch(user_input) = "question" -> "build_query"

HandleUserInput(user_input) ==
    /\ node = "handle_user_input"
    /\ conversation_history' = IntakeHistory(user_input)
    /\ sql_event' = IntakeSqlEvent(user_input)
    /\ data_load_event' = IntakeLoadEvent(user_input)
    /\ next_step' = IntakeNextStep(user_input)
    /\ node' = Successor("handle_user_input", next_step')
    /\ last' = [node |-> "handle_user_input", branch |-> InputBranch(user_input),
                input |-> user_input]
    /\ executions' = IF InputBranch(user_input) = "question" THEN 0 ELSE executions
    /\ UNCHANGED <<table_schemas, db_tables, MAX_RETRY_SQL_GENERATION, loaded_blocks>>

-----------------------------------------------------------------------------
(* load_data *)

\* os.path.basename
Basename(path) == SubSeq(path, RFind(path, "/") + 1, Len(path))

\* os.path.splitext(path)[0]: the path up to the last dot of its last component,
\* unless that component has only dots before it
SplitextRoot(path) ==
    LET sepIndex == RFind(path, "/")
        dotIndex == RFind(path, ".")
    IN  IF /\ dotIndex > sepIndex
           /\ \E i \in (sepIndex + 1)..(dotIndex - 1) : path[i] # "."
        THEN SubSeq(path, 1, dotIndex - 1)
        ELSE path

TableName(file_path) == SplitextRoot(Basename(file_path))

\* table_info = f"Table: {table_name}\n{meta}\n"
TableInfo(table_name, meta) == <<"Table: ">> \o table_name \o <<"\n">> \o meta \o <<"\n">>

\* mutant of LoadTableSchemas: = instead of +=
LoadTableSchemasAssigned(meta) == TableInfo(TableName(data_load_event.file_path), meta)

\* state.table_schemas += table_info
LoadTableSchemas(meta) ==
    table_schemas \o TableInfo(TableName(data_load_event.file_path), meta)

LoadMessage(table_name, meta) ==
    SystemMessage(<<"Table '">> \o table_name \o <<"' loaded with metadata:\n">>
                  \o TableInfo(table_name, meta))

\* mutant of Materialize: an existing table receives the file's rows again
MaterializeAppending(tables, table_name, file_path) ==
    [t \in DOMAIN tables \cup {table_name} |->
        IF t = table_name
        THEN IF t \in DOMAIN tables THEN tables[t] \o file_path ELSE file_path
        ELSE tables[t]]

\* CREATE OR REPLACE TABLE {table_name} AS SELECT * FROM '{file_path}'
Materialize(tables, table_name, file_path) ==
    [t \in DOMAIN tables \cup {table_name} |->
        IF t = table_name THEN file_path ELSE tables[t]]

\* load_data returns: the table is materialized and the description file read
LoadData(meta) ==
    /\ node = "load_data"
    /\ db_tables' = Materialize(db_tables, TableName(data_load_event.file_path),
                                data_load_event.file_path)
    /\ table_schemas' = LoadTableSchemas(meta)
    /\ conversation_history' =
          update_conversation_history(conversation_history,
              LoadMessage(TableName(data_load_event.file_path), meta))
    /\ next_step' = "handle_user_input"
    /\ node' = Successor("load_data", next_step')
    /\ last' = [node |-> "load_data", branch |-> "loaded", input |-> meta]
    /\ loaded_blocks' =
          Append(loaded_blocks, TableInfo(TableName(data_load_event.file_path), meta))
    /\ UNCHANGED <<sql_event, data_load_event, MAX_RETRY_SQL_GENERATION, executions>>

\* load_data raises: db_conn.execute fails (nothing is changed), or open() fails after
\* the table was materialized.  Nothing catches the exception: graph.invoke raises.
LoadDataRaises(materialized) ==
    /\ node = "load_data"
    /\ db_tables' = IF materialized
                    THEN Materialize(db_tables, TableName(data_load_event.file_path),
                                     data_load_event.file_path)
                    ELSE db_tables
    /\ node' = "crashed"
    /\ last' = [node |-> "load_data", branch |-> "raised", input |-> <<>>]
    /\ UNCHANGED <<state_vars, MAX_RETRY_SQL_GENERATION, loaded_blocks, executions>>

-----------------------------------------------------------------------------
(* build_query *)

ClarificationMarker == <<"[CLARIFICATION]">>

\* llm_response.content.startswith("[CLARIFICATION]")
IsClarification(content) == StartsWith(content, ClarificationMarker)

\* llm_response.content.split("[CLARIFICATION]")[1].strip()
ClarificationText(content) == Strip(SecondPiece(content, ClarificationMarker))

ClarificationMessage(content) ==
    AIMessage(<<"Your question is ambiguous. Please provide additional details: ">>
              \o ClarificationText(content))

\* llm_response.content.replace("```sql", "").replace("```", "").strip()
QueryText(content) == Strip(Remove(Remove(content, <<Fence, "sql">>), <<Fence>>))

\* mutant of BuildHistory: the response is appended as received, fences included
BuildHistoryRaw(content) ==
    IF IsClarification(content)
    THEN update_conversation_history(conversation_history, ClarificationMessage(content))
    ELSE update_conversation_history(conversation_history, AIMessage(content))

\* the conversation history build_query leaves
BuildHistory(content) ==
    IF IsClarification(content)
    THEN update_conversation_history(conversation_history, ClarificationMessage(content))
    ELSE update_conversation_history(conversation_history, AIMessage(QueryText(content)))

\* mutant of BuildSqlEvent: sql_text is stored before the marker is tested
BuildSqlEventAlways(content) == [sql_event EXCEPT !.sql_text = QueryText(content)]

\* mutant of BuildSqlEvent: a clarification clears sql_text
BuildSqlEventClearing(content) ==
    IF IsClarification(content)
    THEN [sql_event EXCEPT !.sql_text = None]
    ELSE [sql_event EXCEPT !.sql_text = QueryText(content)]

\* the sql_event build_query leaves
BuildSqlEvent(content) ==
    IF IsClarification(content)
    THEN sql_event
    ELSE [sql_event EXCEPT !.sql_text = QueryText(content)]

\* the next_step build_query writes
BuildNextStep(content) ==
    IF IsClarification(content) THEN "handle_user_input" ELSE "execute_query"

BuildQuery(content) ==
    /\ node = "build_query"
    /\ conversation_history' = BuildHistory(content)
    /\ sql_event' = BuildSqlEvent(content)
    /\ next_step' = BuildNextStep(content)
    /\ node' = Successor("build_query", next_step')
    /\ last' = [node |-> "build_query",
                branch |-> IF IsClarification(content) THEN "clarification" ELSE "query",
                input |-> content]
    /\ UNCHANGED <<data_load_event, table_schemas, db_tables, MAX_RETRY_SQL_GENERATION,
                   loaded_blocks, executions>>

\* model.invoke raises: nothing catches it
BuildQueryRaises ==
    /\ node = "build_query"
    /\ node' = "crashed"
    /\ last' = [node |-> "build_query", branch |-> "raised", input |-> <<>>]
    /\ UNCHANGED <<state_vars, db_tables, MAX_RETRY_SQL_GENERATION, loaded_blocks,
                   executions>>

-----------------------------------------------------------------------------
(* execute_query *)

\* mutant of RetryExhausted: the comparison is >= instead of >
RetryExhaustedAtBound(retry_count) == retry_count >= MAX_RETRY_SQL_GENERATION

\* mutant of RetryExhausted: one retry more than the bound
RetryExhaustedLate(retry_count) == retry_count > MAX_RETRY_SQL_GENERATION + 1

\* if state.sql_event.retry_count > MAX_RETRY_SQL_GENERATION
RetryExhausted(retry_count) == retry_count > MAX_RETRY_SQL_GENERATION

\* the second literal of the message is no f-string: the braces stay as written
GiveUpMessage ==
    AIMessage(<<"Unfortunately, I was unable to execute your requests after {MAX_RETRY_SQL_GENERATION} attempts.">>)

\* mutant of ErrorMessage: the message does not quote the error
ErrorMessageWithoutText(error) == AIMessage(<<"The generated SQL query raised an error.">>)

ErrorMessage(error) ==
    AIMessage(<<"The generated SQL query raised this error:\n">> \o error \o <<"\n">>)

\* mutant of ExecutedSqlEvent: the error of an earlier failure is not cleared
ExecutedSqlEventKeepsError(rows) == [sql_event EXCEPT !.sql_result = rows]

\* the sql_event the try block leaves when db_conn.execute returns `rows`
ExecutedSqlEvent(rows) == [sql_event EXCEPT !.sql_result = rows, !.error = None]

\* the sql_event the except block leaves when db_conn.execute raises `error`
FailedSqlEvent(error) ==
    [sql_event EXCEPT !.sql_result = None, !.error = error,
                      !.retry_count = sql_event.retry_count + 1]

\* the conversation history the except block leaves
FailedHistory(error) ==
    IF RetryExhausted(FailedSqlEvent(error).retry_count)
    THEN update_conversation_history(conversation_history, GiveUpMessage)
    ELSE update_conversation_history(conversation_history, ErrorMessage(error))

\* mutant of FailedNextStep: an error of the catalog is not retried
FailedNextStepByErrorText(error) ==
    IF RetryExhausted(FailedSqlEvent(error).retry_count) \/ error = <<"Catalog Error">>
    THEN "handle_user_input"
    ELSE "build_query"

\* mutant of FailedNextStep: giving up ends the session
FailedNextStepEnds(error) ==
    IF RetryExhausted(FailedSqlEvent(error).retry_count)
    THEN "END"
    ELSE "build_query"

\* the next_step the except block writes
FailedNextStep(error) ==
    IF RetryExhausted(FailedSqlEvent(error).retry_count)
    THEN "handle_user_input"
    ELSE "build_query"

\* db_conn.execute(sql_text).fetchall() returns rows
ExecuteQueryOk(rows) ==
    /\ node = "execute_query"
    /\ sql_event' = ExecutedSqlEvent(rows)
    /\ next_step' = "post_execution"
    /\ node' = Successor("execute_query", next_step')
    /\ last' = [node |-> "execute_query", branch |-> "ok", input |-> rows]
    /\ executions' = executions + 1
    /\ UNCHANGED <<conversation_history, data_load_event, table_schemas, db_tables,
                   MAX_RETRY_SQL_GENERATION, loaded_blocks>>

\* db_conn.execute raises an exception whose text is `error`
ExecuteQueryFails(error) ==
    /\ node = "execute_query"
    /\ sql_event' = FailedSqlEvent(error)
    /\ conversation_history' = FailedHistory(error)
    /\ next_step' = FailedNextStep(error)
    /\ node' = Successor("execute_query", next_step')
    /\ last' = [node |-> "execute_query",
                branch |-> IF RetryExhausted(FailedSqlEvent(error).retry_count)
                           THEN "give_up" ELSE "retry",
                input |-> error]
    /\ executions' = executions + 1
    /\ UNCHANGED <<data_load_event, table_schemas, db_tables, MAX_RETRY_SQL_GENERATION,
                   loaded_blocks>>

-----------------------------------------------------------------------------
(* post_execution *)

\* AIMessage(content=f"SQL results are: {state.sql_event.sql_result}")
ResultsMessage(sql_result) == AIMessage(<<"SQL results are: ">> \o sql_result)

\* mutant of NarrationHistory: the results message is not appended
NarrationHistorySummaryOnly(summary) ==
    update_conversation_history(conversation_history, AIMessage(summary))

\* the conversation history post_execution leaves when model.invoke returns `summary`
NarrationHistory(summary) ==
    update_conversation_history(
        update_conversation_history(conversation_history,
                                    ResultsMessage(sql_event.sql_result)),
        AIMessage(summary))

PostExecution(summary) ==
    /\ node = "post_execution"
    /\ conversation_history' = NarrationHistory(summary)
    /\ sql_event' = [sql_event EXCEPT !.llm_response = summary]
    /\ next_step' = "handle_user_input"
    /\ node' = Successor("post_execution", next_step')
    /\ last' = [node |-> "post_execution", branch |-> "narrated", input |-> summary]
    /\ UNCHANGED <<data_load_event, table_schemas, db_tables, MAX_RETRY_SQL_GENERATION,
                   loaded_blocks, executions>>

\* model.invoke raises after the results message was appended: nothing catches it
PostExecutionRaises ==
    /\ node = "post_execution"
    /\ conversation_history' =
          update_conversation_history(conversation_history,
                                      ResultsMessage(sql_event.sql_result))
    /\ node' = "crashed"
    /\ last' = [node |-> "post_execution", branch |-> "raised", input |-> <<>>]
    /\ UNCHANGED <<sql_event, data_load_event, table_schemas, next_step, db_tables,
                   MAX_RETRY_SQL_GENERATION, loaded_blocks, executions>>

-----------------------------------------------------------------------------
(* The session *)

\* chat_state as constructed, before graph.invoke runs the START edge
Init ==
    /\ conversation_history = <<WelcomeMessage>>
    /\ sql_event = SqlEvent(None)
    /\ data_load_event = DataLoadEvent(None, None)
    /\ table_schemas = <<>>
    /\ next_step = "handle_user_input"
    /\ node = "handle_user_input"
    /\ db_tables = <<>>
    /\ MAX_RETRY_SQL_GENERATION \in 0..MaxRetryBound
    /\ last = [node |-> "START", branch |-> "start", input |-> <<>>]
    /\ loaded_blocks = <<>>
    /\ executions = 0

\* input() returns a line; lines other than quit are read while the history is short
Intake ==
    \E user_input \in UserInputs :
        /\ IsQuit(user_input) \/ Len(conversation_history) <= MaxHistory
        /\ HandleUserInput(user_input)

Load == \E meta \in Metas : LoadData(meta)
LoadFails == \E materialized \in BOOLEAN : LoadDataRaises(materialized)
Build == \E content \in Responses : BuildQuery(content)
ExecuteOk == \E rows \in ResultRows : ExecuteQueryOk(rows)
ExecuteFails == \E error \in ErrorTexts : ExecuteQueryFails(error)
Narrate == \E summary \in Summaries : PostExecution(summary)

Next ==
    \/ Intake
    \/ Load
    \/ LoadFails
    \/ Build
    \/ BuildQueryRaises
    \/ ExecuteOk
    \/ ExecuteFails
    \/ Narrate
    \/ PostExecutionRaises

Spec == Init /\ [][Next]_vars

\* The session in which every call of a collaborator returns: load_data and
\* model.invoke do not raise.
NextReturning ==
    \/ Intake
    \/ Load
    \/ Build
    \/ ExecuteOk
    \/ ExecuteFails
    \/ Narrate

\* graph.invoke runs the node an edge leads to as soon as the node before it has
\* returned; only handle_user_input waits, for input().
NodesRun ==
    /\ WF_vars(Load)
    /\ WF_vars(Build)
    /\ WF_vars(ExecuteOk \/ ExecuteFails)
    /\ WF_vars(Narrate)

LiveSpec == Init /\ [][NextReturning]_vars /\ NodesRun

-----------------------------------------------------------------------------
(* Properties *)

LastMessage == conversation_history[Len(conversation_history)]

\* the step just taken was a run of execute_query in which db_conn.execute raised
ExecutionJustFailed == last.node = "execute_query" /\ sql_event.error # None

\* C1: with retry bound N, the execution that has just failed is number 1 .. N+1 of
\* its SqlEvent; after each of the first N failures the next node is build_query, and
\* after failure N+1 the give-up message is the last message and the next node is
\* handle_user_input.
C1_AttemptsBeforeGiveUp ==
    ExecutionJustFailed =>
        /\ executions \in 1..(MAX_RETRY_SQL_GENERATION + 1)
        /\ executions <= MAX_RETRY_SQL_GENERATION =>
              /\ next_step = "build_query"
              /\ node = "build_query"
              /\ LastMessage # GiveUpMessage
        /\ executions = MAX_RETRY_SQL_GENERATION + 1 =>
              /\ next_step = "handle_user_input"
              /\ node = "handle_user_input"
              /\ LastMessage = GiveUpMessage

\* the second execution failed under retry bound 1: give-up
C1_Witness ==
    /\ ExecutionJustFailed
    /\ MAX_RETRY_SQL_GENERATION = 1
    /\ executions = 2
    /\ LastMessage = GiveUpMessage

\* the step accepts a question: handle_user_input appends a human message
AcceptsQuestion ==
    /\ node = "handle_user_input"
    /\ Len(conversation_history') = Len(conversation_history) + 1
    /\ conversation_history'[Len(conversation_history')].role = "human"

\* the step is a run of execute_query in which db_conn.execute raised
FailsExecution == node = "execute_query" /\ sql_event'.error # None

\* C2: retry_count is 0 right after a question is accepted; any other step leaves it
\* alone, except a failed run of execute_query, which adds exactly 1.
C2_RetryCountSteps ==
    [][ /\ AcceptsQuestion => sql_event'.retry_count = 0
        /\ FailsExecution => sql_event'.retry_count = sql_event.retry_count + 1
        /\ ~AcceptsQuestion /\ ~FailsExecution =>
              sql_event'.retry_count = sql_event.retry_count ]_vars

\* a question was just accepted after an execution of an earlier question had failed
C2_Witness ==
    /\ last.node = "handle_user_input"
    /\ last.branch = "question"
    /\ sql_event.retry_count = 0
    /\ \E i \in 1..Len(conversation_history) : conversation_history[i] = GiveUpMessage

\* C3: the next_step a node has just written is a label of that node's edges, the
\* graph never meets a label it does not know, and END is entered from
\* handle_user_input only.
C3_LegalEdgeLabels ==
    /\ node # "invalid_edge"
    /\ node = "END" => last.node = "handle_user_input"
    /\ last.branch # "raised" =>
          /\ last.node = "handle_user_input" =>
                next_step \in {"handle_user_input", "load_data", "build_query", "END"}
          /\ last.node = "load_data" => next_step = "handle_user_input"
          /\ last.node = "build_query" => next_step \in {"handle_user_input", "execute_query"}
          /\ last.node = "execute_query" =>
                next_step \in {"build_query", "post_execution", "handle_user_input"}
          /\ last.node = "post_execution" => next_step = "handle_user_input"

\* the session has ended after an attempt that was given up
C3_Witness == node = "END" /\ next_step = "END" /\ sql_event.retry_count > 0

\* C4: whenever build_query, execute_query or post_execution is the node to run,
\* table_schemas is not empty and a load has completed.
C4_SchemaBeforeQuery ==
    node \in {"build_query", "execute_query", "post_execution"} =>
        table_schemas # <<>> /\ loaded_blocks # <<>>

\* post_execution is about to run
C4_Witness == node = "post_execution" /\ table_schemas # <<>>

\* C5: table_schemas is the concatenation, in load order, of the table_info of every
\* completed load; it changes only in a run of load_data that returns, by one block
\* appended at its end.
C5_SchemasAreTheLoads ==
    /\ [](table_schemas = Flatten(loaded_blocks))
    /\ [][ table_schemas' # table_schemas =>
              /\ node = "load_data"
              /\ last'.branch = "loaded"
              /\ \E meta \in Metas :
                    table_schemas' =
                       table_schemas \o TableInfo(TableName(data_load_event.file_path), meta) ]_vars

\* two loads with different descriptions have completed, and a question was asked since
C5_Witness ==
    /\ Len(loaded_blocks) = 2
    /\ loaded_blocks[1] # loaded_blocks[2]
    /\ node = "build_query"

\* C6: the history starts as the welcome message alone, and the history before any
\* step is a prefix of the history after it.
C6_HistoryAppendOnly ==
    /\ conversation_history = <<WelcomeMessage>>
    /\ [][IsPrefix(conversation_history, conversation_history')]_vars

\* a history of six messages that still starts with the welcome message
C6_Witness ==
    /\ Len(conversation_history) >= 6
    /\ conversation_history[1] = WelcomeMessage
    /\ last.node = "post_execution"


\* the number of messages the step appends
Appended == Len(conversation_history') - Len(conversation_history)

\* the roles of the messages the step appends, in order
AppendedRoles ==
    [i \in 1..Appended |-> conversation_history'[Len(conversation_history) + i].role]

\* the step is a run of handle_user_input that takes one of `branches`
IntakeTakes(branches) == node = "handle_user_input" /\ last'.branch \in branches

\* the step is a run of node `n` that returns (does not raise)
Returns(n) == node = n /\ last'.branch # "raised"

Response == last'.input

\* C8: a response that starts with the clarification marker makes build_query write
\* next_step = handle_user_input and leave sql_text as it was; any other response
\* makes it store the text without fences and outer white space in sql_text and write
\* next_step = execute_query.
C8_ClarificationOrQuery ==
    [][ Returns("build_query") =>
          IF Response # <<>> /\ Response[1] = "[CLARIFICATION]"
          THEN /\ next_step' = "handle_user_input"
               /\ node' = "handle_user_input"
               /\ sql_event'.sql_text = sql_event.sql_text
          ELSE /\ next_step' = "execute_query"
               /\ node' = "execute_query"
               /\ sql_event'.sql_text = QueryText(Response)
               /\ \A i \in 1..Len(sql_event'.sql_text) : sql_event'.sql_text[i] # Fence
               /\ sql_event'.sql_text # <<>> =>
                     /\ sql_event'.sql_text[1] \notin WhiteSpace
                     /\ sql_event'.sql_text[Len(sql_event'.sql_text)] \notin WhiteSpace ]_vars

\* build_query stored a query that differs from the response it was stripped from
C8_Witness ==
    /\ last.node = "build_query"
    /\ node = "execute_query"
    /\ Fence \in {last.input[i] : i \in 1..Len(last.input)}
    /\ sql_event.sql_text = <<"SELECT 1">>

\* the input is a load command that does not have exactly three tokens
MalformedLoad(user_input) ==
    /\ StartsWith(Lower(user_input), <<"/", "l", "o", "a", "d">>)
    /\ Len(Split(user_input)) # 3

\* the input is neither a quit nor a load command
NonCommand(user_input) ==
    /\ ~StartsWith(Lower(user_input), <<"/", "q">>)
    /\ ~StartsWith(Lower(user_input), <<"/", "l", "o", "a", "d">>)

\* C9 as stated: on a load command with the wrong number of tokens handle_user_input
\* appends one system message, writes next_step = handle_user_input and leaves
\* sql_event and data_load_event alone.
C9_MalformedLoadReprompts ==
    [][ (node = "handle_user_input" /\ MalformedLoad(last'.input)) =>
          /\ AppendedRoles = <<"system">>
          /\ next_step' = "handle_user_input"
          /\ sql_event' = sql_event
          /\ data_load_event' = data_load_event ]_vars

\* C10: on an input that is no command, read while table_schemas is empty,
\* handle_user_input appends the load-first system message and nothing else, writes
\* next_step = handle_user_input and leaves sql_event alone.
C10_QuestionBeforeLoad ==
    [][ (node = "handle_user_input" /\ NonCommand(last'.input) /\ table_schemas = <<>>) =>
          /\ conversation_history' = Append(conversation_history, LoadFirstMessage)
          /\ LoadFirstMessage.role = "system"
          /\ next_step' = "handle_user_input"
          /\ node' = "handle_user_input"
          /\ sql_event' = sql_event ]_vars

\* a question was refused before any load: no SqlEvent holds it
C10_Witness ==
    /\ last.node = "handle_user_input"
    /\ last.input = <<"h", "i">>
    /\ table_schemas = <<>>
    /\ LastMessage = LoadFirstMessage
    /\ sql_event.user_question = None


\* C11: on a quit marker handle_user_input writes next_step = END, the graph ends,
\* and conversation_history, sql_event, data_load_event and table_schemas (and the
\* engine's tables) are as they were.
C11_QuitChangesNothingElse ==
    [][ (node = "handle_user_input" /\ StartsWith(Lower(last'.input), <<"/", "q">>)) =>
          /\ next_step' = "END"
          /\ node' = "END"
          /\ conversation_history' = conversation_history
          /\ sql_event' = sql_event
          /\ data_load_event' = data_load_event
          /\ table_schemas' = table_schemas
          /\ db_tables' = db_tables ]_vars

\* the session was quit right after a give-up, with the failed attempt still in place
C11_Witness ==
    /\ node = "END"
    /\ last.input = <<"/", "Q", "x">>
    /\ LastMessage = GiveUpMessage
    /\ sql_event.error # None


C13_FailedLoadReturnsToIntake ==
    (last.node = "load_data" /\ last.branch = "raised") => node = "handle_user_input"


\* the number of blocks of table `name` in `schemas`
BlockCount(schemas, name) ==
    LET header == <<"Table: ">> \o name \o <<"\n">>
    IN  Cardinality({i \in 1..Len(schemas) : StartsWith(SubSeq(schemas, i, Len(schemas)), header)})

\* the file of the load command, and the table load_data derives from it
LoadedFile == data_load_event.file_path
LoadedTable == TableName(LoadedFile)

\* C14: after k >= 1 completed loads of one file the engine holds one table, whose
\* contents are those of that file loaded once, and table_schemas holds k blocks of
\* that table; a load of the file the table already holds leaves the engine as it is
\* and adds one block.
C14_ReloadReplacesTable ==
    /\ [](loaded_blocks # <<>> =>
             /\ DOMAIN db_tables = {LoadedTable}
             /\ db_tables[LoadedTable] = LoadedFile
             /\ BlockCount(table_schemas, LoadedTable) = Len(loaded_blocks))
    /\ [][ ( /\ node = "load_data"
             /\ last'.branch = "loaded"
             /\ LoadedTable \in DOMAIN db_tables
             /\ db_tables[LoadedTable] = LoadedFile ) =>
              /\ db_tables' = db_tables
              /\ BlockCount(table_schemas', LoadedTable) =
                    BlockCount(table_schemas, LoadedTable) + 1 ]_vars

\* file d/a.c has been loaded twice: one table a, two blocks
C14_Witness ==
    /\ Len(loaded_blocks) = 2
    /\ last.node = "load_data"
    /\ DOMAIN db_tables = {<<"a">>}
    /\ db_tables[<<"a">>] = <<"d", "/", "a", ".", "c">>
    /\ BlockCount(table_schemas, <<"a">>) = 2


\* build_query has just returned from a response that starts with the marker
ClarificationJustHandled ==
    /\ last.node = "build_query"
    /\ last.input # <<>>
    /\ last.input[1] = "[CLARIFICATION]"
    /\ next_step = "handle_user_input"

\* C15 as stated: after build_query has handled a clarification, sql_text is unset.
C15_ClarificationLeavesQueryUnset == ClarificationJustHandled => sql_event.sql_text = None

\* C15 as amended: after build_query has handled a clarification, sql_text is what it
\* was before that run: unset when no execution of this SqlEvent has failed (the
\* build was entered from handle_user_input), and the text of the query whose
\* execution failed when one has (a repair build), which is the message before the
\* error message.
C15_ClarificationKeepsQueryText ==
    ClarificationJustHandled =>
        /\ sql_event.retry_count = 0 => sql_event.sql_text = None
        /\ sql_event.retry_count > 0 =>
              /\ sql_event.sql_text # None
              /\ conversation_history[Len(conversation_history) - 1] =
                    ErrorMessage(sql_event.error)
              /\ conversation_history[Len(conversation_history) - 2] =
                    AIMessage(sql_event.sql_text)

\* a repair build has answered with a clarification: the failed query is still stored
C15_Witness ==
    /\ ClarificationJustHandled
    /\ sql_event.retry_count = 1
    /\ sql_event.sql_text = <<"SELECT 1">>


\* text `part` occurs in text `whole`
Contains(whole, part) ==
    \E i \in 1..(Len(whole) - Len(part) + 1) : SubSeq(whole, i, i + Len(part) - 1) = part

\* C16: whenever build_query is the node to run after execute_query, the last message
\* of the history is an assistant message that contains the error text of the
\* execution that has just failed, which is sql_event.error, and the message before
\* it is the assistant message that holds the failed query text.
C16_ErrorPrecedesRepair ==
    (node = "build_query" /\ last.node = "execute_query") =>
        /\ sql_event.error # None
        /\ sql_event.error = last.input
        /\ LastMessage.role = "ai"
        /\ Contains(LastMessage.content, sql_event.error)
        /\ conversation_history[Len(conversation_history) - 1] = AIMessage(sql_event.sql_text)

\* a repair build is about to run after an execution failed with a catalog error
C16_Witness ==
    /\ node = "build_query"
    /\ last.node = "execute_query"
    /\ last.input = <<"Catalog Error">>
    /\ sql_event.retry_count = 1


\* What decides control: the node to run, the retry count, whether a table is loaded.
Control == <<node, sql_event.retry_count, table_schemas = <<>>>>

\* The control a step of node `n` leads to, computed from the control before the step
\* and from what the step was handed other than the error text: the input line, the
\* response, whether the call raised (`raised`), whether the execution failed (`failed`).
ControlAfter(n, count, unloaded, input, raised, failed) ==
    CASE raised -> <<"crashed", count, unloaded>>
      [] n = "handle_user_input" ->
            IF StartsWith(Lower(input), <<"/", "q">>) THEN <<"END", count, unloaded>>
            ELSE IF StartsWith(Lower(input), <<"/", "l", "o", "a", "d">>)
                 THEN IF Len(Split(input)) = 3
                      THEN <<"load_data", count, unloaded>>
                      ELSE <<"handle_user_input", count, unloaded>>
                 ELSE IF unloaded
                      THEN <<"handle_user_input", count, unloaded>>
                      ELSE <<"build_query", 0, unloaded>>
      [] n = "load_data" -> <<"handle_user_input", count, FALSE>>
      [] n = "build_query" ->
            IF input # <<>> /\ input[1] = "[CLARIFICATION]"
            THEN <<"handle_user_input", count, unloaded>>
            ELSE <<"execute_query", count, unloaded>>
      [] n = "execute_query" ->
            IF ~failed THEN <<"post_execution", count, unloaded>>
            ELSE IF count + 1 > MAX_RETRY_SQL_GENERATION
                 THEN <<"handle_user_input", count + 1, unloaded>>
                 ELSE <<"build_query", count + 1, unloaded>>
      [] n = "post_execution" -> <<"handle_user_input", count, unloaded>>

\* C17: the node to run and the retry count after every step are a function of the
\* control before the step and of the step's input line, response and success or
\* failure, with no argument for the error text; so two sessions handed the same
\* lines, responses and outcomes visit the same nodes with the same retry counts
\* whatever the error texts are.
C17_ControlIgnoresErrorText ==
    [][ Control' =
          ControlAfter(node, sql_event.retry_count, table_schemas = <<>>,
                       IF node = "execute_query" THEN <<>> ELSE last'.input,
                       last'.branch = "raised",
                       node = "execute_query" /\ sql_event'.error # None) ]_vars

\* two executions of one question failed with different error texts
C17_Witness ==
    /\ last.node = "execute_query"
    /\ sql_event.error = <<"Catalog Error">>
    /\ sql_event.retry_count = 2
    /\ \E i \in 1..Len(conversation_history) :
          conversation_history[i] = ErrorMessage(<<"Parser Error">>)


\* the positions of the human messages of the history
HumanPositions == {i \in 1..Len(conversation_history) : conversation_history[i].role = "human"}

LastHumanPosition == CHOOSE i \in HumanPositions : \A j \in HumanPositions : j <= i

\* C18: user_question changes only in the step of handle_user_input that accepts a
\* question; it is unset while the history holds no human message, and otherwise it
\* is the content of the last human message.
C18_UserQuestionIsLastHumanMessage ==
    /\ [](IF HumanPositions = {}
          THEN sql_event.user_question = None
          ELSE sql_event.user_question = conversation_history[LastHumanPosition].content)
    /\ [][ sql_event'.user_question # sql_event.user_question =>
              /\ AcceptsQuestion
              /\ sql_event'.user_question = last'.input ]_vars

\* a second, different question has been accepted and its query is being executed
C18_Witness ==
    /\ Cardinality({conversation_history[i].content : i \in HumanPositions}) = 2
    /\ sql_event.user_question = <<"h", "i">>
    /\ node = "execute_query"

\* C19: sql_result and error are never both set, and post_execution is the node to
\* run only with sql_result set and error unset.
C19_RowsOrErrorNotBoth ==
    /\ ~(sql_event.sql_result # None /\ sql_event.error # None)
    /\ node = "post_execution" => sql_event.sql_result # None /\ sql_event.error = None
    /\ ExecutionJustFailed => sql_event.sql_result = None

\* post_execution is about to run on the rows of a query that was repaired
C19_Witness ==
    /\ node = "post_execution"
    /\ sql_event.retry_count = 1
    /\ sql_event.sql_result # None
    /\ sql_event.error = None

\* the position of the last give-up message of the history, 0 when there is none
GiveUpPositions == {i \in 1..Len(conversation_history) : conversation_history[i] = GiveUpMessage}

\* C20: retry_count is in 0 .. N+1; execute_query is the node to run only with
\* retry_count <= N; and retry_count = N+1 only after a give-up of the current
\* SqlEvent: no query node is to run and a give-up message follows the last question.
C20_RetryCountRange ==
    /\ sql_event.retry_count \in 0..(MAX_RETRY_SQL_GENERATION + 1)
    /\ node = "execute_query" => sql_event.retry_count <= MAX_RETRY_SQL_GENERATION
    /\ sql_event.retry_count = MAX_RETRY_SQL_GENERATION + 1 =>
          /\ node \notin {"build_query", "execute_query", "post_execution"}
          /\ HumanPositions # {}
          /\ \E i \in GiveUpPositions : i > LastHumanPosition

\* after a give-up a load command was read: the count is still N+1
C20_Witness ==
    /\ sql_event.retry_count = MAX_RETRY_SQL_GENERATION + 1
    /\ LastMessage = GiveUpMessage
    /\ node = "load_data"


\* C21: whenever execute_query is the node to run, the step before it was a run of
\* build_query, sql_text is set and is the query text that run made of its response,
\* the last message of the history is the assistant message holding that text, and
\* that message follows the question of the current SqlEvent.
C21_ExecutesTheQueryJustBuilt ==
    node = "execute_query" =>
        /\ last.node = "build_query"
        /\ sql_event.sql_text # None
        /\ sql_event.sql_text = QueryText(last.input)
        /\ LastMessage = AIMessage(sql_event.sql_text)
        /\ HumanPositions # {}
        /\ conversation_history[LastHumanPosition].content = sql_event.user_question
        /\ \A i \in (LastHumanPosition + 1)..(Len(conversation_history) - 1) :
              conversation_history[i].role = "ai"

\* the query of a second question is about to run; the first question's query, a
\* different text, was given up and is still in the history
C21_Witness ==
    /\ node = "execute_query"
    /\ sql_event.sql_text = <<"[CLARIFICATION]", " ", "which?">>
    /\ \E i \in 1..(LastHumanPosition - 1) :
          /\ conversation_history[i] = AIMessage(<<"SELECT 1">>)
          /\ conversation_history[i + 1] = GiveUpMessage

====
